---- MODULE Spec2Model ----
(***************************************************************************)
(* 3DMatrixPlot: the App component (staged/active configuration, data      *)
(* loading through fetchDataFromGAS) and the Graph3D component (the scene  *)
(* builder run by its effect: node layout, intra-layer outline edges,      *)
(* capped inter-layer edges, layer-name anchors).                          *)
(*                                                                         *)
(* Coordinates are exact symbolic reals, one record shape for all:         *)
(*   [k |-> "quarter", n]        the number n/4                            *)
(*   [k |-> "sqrt3q",  n]        the number n*sqrt(3)/4                    *)
(*   [k |-> "cos", n, m, d]      the number (n/10)*cos(2*pi*m/d)           *)
(*   [k |-> "sin", n, m, d]      the number (n/10)*sin(2*pi*m/d)           *)
(* Optional per-node label/url, colours and the Plotly layout object carry *)
(* no behaviour of their own and are left out of the trace records.        *)
(***************************************************************************)
EXTENDS Integers, Sequences, FiniteSets, TLC

VARIABLES
    data,        \* App: useState<Graph3DData | null>          (App.tsx:19)
    loading,     \* App: useState<boolean>                     (App.tsx:20)
    error,       \* App: useState<string | null>               (App.tsx:21)
    staged,      \* App: the four staged* states               (App.tsx:24-27)
    active,      \* App: the four active* states               (App.tsx:30-33)
    gasUrl,      \* App: useState gasUrl (param || env || '')  (App.tsx:14-17)
    viteGasUrl,  \* import.meta.env.VITE_GAS_URL
    pc,          \* position of the one loadData call: idle / awaiting / rejected
    net,         \* what the network did for the fetch of the last loadData call
    response,    \* the `response` of the last loadData call, once awaited
    mounted,     \* whether a Graph3D instance is mounted
    outcome,     \* what the last run of Graph3D's effect did
    scene,       \* the traces last handed to Plotly.newPlot on the mounted div
    surface      \* the plot last bound by Plotly.newPlot: none / bound /
                 \* released (purged) / leaked (its div removed, never purged)

vars == <<data, loading, error, staged, active, gasUrl, viteGasUrl, pc, net,
          response, mounted, outcome, scene, surface>>

appVars == <<data, loading, error, staged, gasUrl, viteGasUrl, pc, net, response>>

(***************************************************************************)
(* Bounds of the explored inputs.                                          *)
(***************************************************************************)
MaxRows == 3
MaxCols == 3
WideCols == 23
MaxLayers == 3

(***************************************************************************)
(* Program constants.                                                      *)
(***************************************************************************)
maxEdges == 500
zSpacing == 4
DefaultZSpacing == 4

LayerShape == {"rectangle", "circle", "triangle"}

\* A shape tag outside LayerShape: the payload is cast, never validated.
UnknownShape == "hexagon"

ShapeInputs == LayerShape \cup {UnknownShape}

(***************************************************************************)
(* Input matrices.  "full" has every cell (all non-zero); "ragged" lacks   *)
(* the last cell of row 0 and the whole last row.                          *)
(***************************************************************************)
ValuesInput(rows, cols, kind) ==
    IF kind = "full"
    THEN [r \in 1..rows |-> [c \in 1..cols |-> (r - 1) * cols + c]]
    ELSE [r \in 1..(rows - 1) |->
            [c \in 1..(IF r = 1 THEN cols - 1 ELSE cols) |-> (r - 1) * cols + c]]

Layer(rows, cols, shape, kind) ==
    [rows |-> rows, cols |-> cols, shape |-> shape,
     values |-> ValuesInput(rows, cols, kind)]

DimInputs == ((1..MaxRows) \X (1..MaxCols)) \cup {<<1, WideCols>>}

LayerInputs ==
    {Layer(d[1], d[2], s, "full") : d \in DimInputs, s \in ShapeInputs}
    \cup {Layer(d[1], d[2], "rectangle", "ragged") : d \in (2..MaxRows) \X {MaxCols}}

\* The layers stacked into graphs of several layers: rectangles of every
\* number of rows, the wide rectangle, and one layer of each other shape tag.
StackInputs ==
    {Layer(r, MaxCols, "rectangle", "full") : r \in 1..MaxRows}
    \cup {Layer(1, WideCols, "rectangle", "full")}
    \cup {Layer(MaxRows, MaxCols, s, "full") : s \in ShapeInputs \ {"rectangle"}}

\* A graph of n layers alternating the layers a, b, a, ...
AltGraph(n, a, b) == [layers |-> [i \in 1..n |-> IF i % 2 = 1 THEN a ELSE b]]

GraphInputs ==
    {AltGraph(n, a, a) : n \in 0..1, a \in LayerInputs}
    \cup {AltGraph(n, a, b) : n \in 2..MaxLayers, a \in StackInputs, b \in StackInputs}

(***************************************************************************)
(* ShapeLayoutStrategy: the planar offset of cell (r, c).                  *)
(***************************************************************************)
Quarter(n) == [k |-> "quarter", n |-> n, m |-> 0, d |-> 1]

Zero == Quarter(0)

\* the rectangle centred on cols / 2 instead of (cols - 1) / 2
LayoutXOffCentre(shape, r, c, rows, cols) ==
    IF shape = "rectangle" THEN Quarter(3 * (2 * c - cols))
    ELSE IF shape = "circle" THEN [k |-> "cos", n |-> 12 * (r + 1), m |-> c, d |-> cols]
    ELSE IF shape = "triangle" THEN Quarter(3 * (2 * c - r))
    ELSE Zero

\* let x = 0; then the branch of the shape, if any
LayoutX(shape, r, c, rows, cols) ==
    IF shape = "rectangle" THEN Quarter(3 * (2 * c - (cols - 1)))
    ELSE IF shape = "circle" THEN [k |-> "cos", n |-> 12 * (r + 1), m |-> c, d |-> cols]
    ELSE IF shape = "triangle" THEN Quarter(3 * (2 * c - r))
    ELSE Zero

\* let y = 0; then the branch of the shape, if any
LayoutY(shape, r, c, rows, cols) ==
    IF shape = "rectangle" THEN Quarter(3 * (2 * r - (rows - 1)))
    ELSE IF shape = "circle" THEN [k |-> "sin", n |-> 12 * (r + 1), m |-> c, d |-> cols]
    ELSE IF shape = "triangle" THEN [k |-> "sqrt3q", n |-> 3 * r - rows, m |-> 0, d |-> 1]
    ELSE Zero

\* values[r]?.[c] ?? 0   (r, c zero-based)
CellValue(values, r, c) ==
    IF r + 1 \in DOMAIN values /\ c + 1 \in DOMAIN values[r + 1]
    THEN values[r + 1][c + 1]
    ELSE 0

(***************************************************************************)
(* LayerNodeBuilder: the nested r/c loops pushing onto layerNodes.         *)
(***************************************************************************)
MakeNode(layer, z, r, c) ==
    [x |-> LayoutX(layer.shape, r, c, layer.rows, layer.cols),
     y |-> LayoutY(layer.shape, r, c, layer.rows, layer.cols),
     z |-> z,
     val |-> CellValue(layer.values, r, c),
     r |-> r, c |-> c]

\* the two loops nested the other way round: columns outside, rows inside
NodeLoopColumnMajor(layer, z, r, layerNodes) ==
    layerNodes \o [k \in 1..(layer.rows * layer.cols) |->
                      MakeNode(layer, z, (k - 1) % layer.rows, (k - 1) \div layer.rows)]

\* for (let c = 0; c < cols; c++) layerNodes.push(...): the pushes of row r
RowNodes(layer, z, r) == [k \in 1..layer.cols |-> MakeNode(layer, z, r, k - 1)]

\* for (let r = 0; r < rows; r++) { the loop over c }
RECURSIVE NodeLoop(_, _, _, _)
NodeLoop(layer, z, r, layerNodes) ==
    IF r >= layer.rows THEN layerNodes
    ELSE NodeLoop(layer, z, r + 1, layerNodes \o RowNodes(layer, z, r))

\* layerIdx is zero-based, as in forEach
LayerNodes(layer, layerIdx) == NodeLoop(layer, layerIdx * zSpacing, 0, <<>>)

(***************************************************************************)
(* IntraLayerEdgeBuilder.                                                  *)
(***************************************************************************)
\* layerNodes.find(n => n.r === r && n.c === c): <<node>>, or <<>> for undefined
getNode(layerNodes, r, c) ==
    LET hits == {i \in 1..Len(layerNodes) : layerNodes[i].r = r /\ layerNodes[i].c = c}
    IN  IF hits = {} THEN <<>>
        ELSE <<layerNodes[CHOOSE i \in hits : \A j \in hits : i <= j]>>

\* (c + 1) % (shape === 'circle' ? cols : Infinity)
RightCol(shape, c, cols) == IF shape = "circle" THEN (c + 1) % cols ELSE c + 1

\* one push of (a, b, null) onto the x, y and z arrays of a line trace
Seg(a, b) == [a |-> a, b |-> b]

\* Horizontal/Ring connections
RightSegs(layerNodes, shape, cols, r, c, current) ==
    LET right == getNode(layerNodes, r, RightCol(shape, c, cols))
    IN  IF right # <<>> /\ (shape = "circle" \/ c + 1 < cols)
        THEN <<Seg(current, right[1])>> ELSE <<>>

\* the lower neighbour looked up one column to the right
DownSegsShifted(layerNodes, r, c, current) ==
    LET down == getNode(layerNodes, r + 1, c + 1)
    IN  IF down # <<>> THEN <<Seg(current, down[1])>> ELSE <<>>

\* Vertical/Radial connections
DownSegs(layerNodes, r, c, current) ==
    LET down == getNode(layerNodes, r + 1, c)
    IN  IF down # <<>> THEN <<Seg(current, down[1])>> ELSE <<>>

\* the diagonal emitted without the test of the shape
DiagSegsAnyShape(layerNodes, shape, r, c, current) ==
    LET diag == getNode(layerNodes, r + 1, c - 1)
    IN  IF diag # <<>> THEN <<Seg(current, diag[1])>> ELSE <<>>

\* Diagonal connection for Triangle
DiagSegs(layerNodes, shape, r, c, current) ==
    IF shape = "triangle"
    THEN LET diag == getNode(layerNodes, r + 1, c - 1)
         IN  IF diag # <<>> THEN <<Seg(current, diag[1])>> ELSE <<>>
    ELSE <<>>

\* the body of the inner loop for cell (r, c)
CellSegs(layerNodes, shape, cols, r, c) ==
    LET current == getNode(layerNodes, r, c)
    IN  IF current = <<>> THEN <<>>
        ELSE RightSegs(layerNodes, shape, cols, r, c, current[1])
             \o DownSegs(layerNodes, r, c, current[1])
             \o DiagSegs(layerNodes, shape, r, c, current[1])

\* the segments pushed from cell (r, c) on to the end of the nested loops
RECURSIVE IntraLoop(_, _, _, _)
IntraLoop(layerNodes, layer, r, c) ==
    IF r >= layer.rows THEN <<>>
    ELSE IF c >= layer.cols THEN IntraLoop(layerNodes, layer, r + 1, 0)
    ELSE CellSegs(layerNodes, layer.shape, layer.cols, r, c)
             \o IntraLoop(layerNodes, layer, r, c + 1)

IntraEdges(layerNodes, layer) == IntraLoop(layerNodes, layer, 0, 0)

(***************************************************************************)
(* InterLayerEdgeBuilder: for (source of currentLayer) for (target of      *)
(* nextLayer) { if (edgeCount > maxEdges) break; push; edgeCount++ }.      *)
(* The break leaves the inner loop only.                                   *)
(***************************************************************************)
\* the test written as edgeCount >= maxEdges
CapReachedAtMax(edgeCount) == edgeCount >= maxEdges

CapReached(edgeCount) == edgeCount > maxEdges

\* the inner loop for one source, entered with st.edgeCount edges: iteration t
\* runs with edgeCount = st.edgeCount + t - 1 and the first one whose test is
\* true breaks; the iterations before it push one edge each
InterInner(source, nextLayer, st) ==
    LET breaks == {t \in 1..Len(nextLayer) : CapReached(st.edgeCount + t - 1)}
        pushed == IF breaks = {} THEN Len(nextLayer)
                  ELSE (CHOOSE t \in breaks : \A u \in breaks : t <= u) - 1
    IN  [segs |-> st.segs \o [t \in 1..pushed |-> Seg(source, nextLayer[t])],
         edgeCount |-> st.edgeCount + pushed]

\* the outer loop from source s on.  edgeCount is never negative: the second
\* test is never true and only has the state of the loop evaluated at every
\* iteration instead of all iterations at the end
RECURSIVE InterOuter(_, _, _, _)
InterOuter(currentLayer, nextLayer, s, st) ==
    IF s > Len(currentLayer) \/ st.edgeCount < 0 THEN st
    ELSE InterOuter(currentLayer, nextLayer, s + 1,
                    InterInner(currentLayer[s], nextLayer, st))

\* let edgeCount = 0 and the edge arrays are fresh for every pair of layers
InterEdges(currentLayer, nextLayer) ==
    InterOuter(currentLayer, nextLayer, 1, [segs |-> <<>>, edgeCount |-> 0]).segs

(***************************************************************************)
(* SceneAssembler: the traces pushed by one run of the effect.             *)
(***************************************************************************)
NoSegs == <<>>
NoNodes == <<>>

IntraTrace(i, segs) ==
    [type |-> "intra", layer |-> i, mode |-> "lines", nodes |-> NoNodes, segs |-> segs]

NodesTrace(i, nodes, showLabels) ==
    [type |-> "nodes", layer |-> i,
     mode |-> IF showLabels THEN "markers+text" ELSE "markers",
     nodes |-> nodes, segs |-> NoSegs]

\* x: [-5], y: [0], z: [z], text: [layer.name]
NameTrace(i, z) ==
    [type |-> "layerName", layer |-> i, mode |-> "text",
     nodes |-> <<[x |-> Quarter(-20), y |-> Zero, z |-> z, val |-> 0, r |-> 0, c |-> 0]>>,
     segs |-> NoSegs]

InterTrace(i, segs) ==
    [type |-> "inter", layer |-> i, mode |-> "lines", nodes |-> NoNodes, segs |-> segs]

\* the layer-name trace pushed without the test of showLayerNames
LayerTracesAlwaysNamed(layer, i, showLabels, showLayerNames) ==
    LET layerNodes == LayerNodes(layer, i)
    IN  <<IntraTrace(i, IntraEdges(layerNodes, layer)),
          NodesTrace(i, layerNodes, showLabels),
          NameTrace(i, i * zSpacing)>>

\* the body of data.layers.forEach for the layer at zero-based index i
LayerTraces(layer, i, showLabels, showLayerNames) ==
    LET layerNodes == LayerNodes(layer, i)
    IN  <<IntraTrace(i, IntraEdges(layerNodes, layer)),
          NodesTrace(i, layerNodes, showLabels)>>
        \o (IF showLayerNames THEN <<NameTrace(i, i * zSpacing)>> ELSE <<>>)

RECURSIVE ForEachLayer(_, _, _, _, _)
ForEachLayer(layers, i, showLabels, showLayerNames, traces) ==
    IF i >= Len(layers) THEN traces
    ELSE ForEachLayer(layers, i + 1, showLabels, showLayerNames,
                      traces \o LayerTraces(layers[i + 1], i, showLabels, showLayerNames))

RECURSIVE ForEachPair(_, _, _)
ForEachPair(allLayerNodes, i, traces) ==
    IF i >= Len(allLayerNodes) - 1 THEN traces
    ELSE ForEachPair(allLayerNodes, i + 1,
                     Append(traces,
                            InterTrace(i, InterEdges(allLayerNodes[i + 1],
                                                     allLayerNodes[i + 2]))))

AllLayerNodes(layers) == [i \in 1..Len(layers) |-> LayerNodes(layers[i], i - 1)]

\* props = [data, showLabels, showLayerNames, showInterLayerEdges]; a zSpacing
\* attribute passed by the parent is no prop of Graph3D and is never read
BuildTraces(props) ==
    LET perLayer == ForEachLayer(props.data.layers, 0, props.showLabels,
                                 props.showLayerNames, <<>>)
    IN  IF props.showInterLayerEdges
        THEN ForEachPair(AllLayerNodes(props.data.layers), 0, perLayer)
        ELSE perLayer

(***************************************************************************)
(* Graph3D: the effect with deps [data, showLabels, showLayerNames,        *)
(* showInterLayerEdges], run after the render that mounts the component or *)
(* changes a dep.  data is <<>> for null, else <<graph>>.                  *)
(***************************************************************************)
NoScene == <<>>

Graph3DProps(d, a) ==
    [data |-> d[1], showLabels |-> a.showLabels, showLayerNames |-> a.showLayerNames,
     showInterLayerEdges |-> a.showInterLayerEdges]

\* if (!plotRef.current || !data.layers.length) return;  ...  Plotly.newPlot(...)
RunEffect(props) ==
    IF Len(props.data.layers) = 0
    THEN [outcome |-> "skipped", scene |-> NoScene]
    ELSE [outcome |-> "plotted", scene |-> BuildTraces(props)]

\* plotRef.current when a cleanup runs: the div while Graph3D stays mounted
\* (a dep changed); null when Graph3D unmounts, because React detaches the
\* ref of the removed div in the commit and runs the cleanups of useEffect
\* after it
RefOnRerun == "div"
RefOnUnmount == "null"

\* return () => { if (plotRef.current) Plotly.purge(plotRef.current) }
Cleanup(ref, s) ==
    IF ref # "null" THEN "released"
    ELSE IF s = "bound" THEN "leaked" ELSE s

\* the cleanup of the previous run, if that run returned one, with the ref as
\* it is at that time
AfterCleanup(ref) ==
    IF mounted /\ outcome = "plotted" THEN Cleanup(ref, surface) ELSE surface

\* the render tests `loading ? ... : data ? ...` without the error branch
VisibleIgnoringError(d, l, e) == ~l /\ d # <<>>

\* loading ? spinner : error ? message : data ? <Graph3D .../> : placeholder
Visible(d, l, e) == ~l /\ e = "" /\ d # <<>>

DepsOf(a) == <<a.showLabels, a.showLayerNames, a.showInterLayerEdges>>

\* The render that follows a state change to (d, l, e, a), and the Graph3D
\* mount, effect re-run or unmount it causes.
Render(d, l, e, a) ==
    IF Visible(d, l, e)
    THEN IF ~mounted \/ d # data \/ DepsOf(a) # DepsOf(active)
         THEN LET eff == RunEffect(Graph3DProps(d, a))
              IN  /\ mounted' = TRUE
                  /\ outcome' = eff.outcome
                  /\ scene' = eff.scene
                  /\ surface' = IF eff.outcome = "plotted" THEN "bound"
                                ELSE AfterCleanup(RefOnRerun)
         ELSE UNCHANGED <<mounted, outcome, scene, surface>>
    ELSE /\ mounted' = FALSE
         /\ outcome' = "idle"
         /\ scene' = NoScene
         /\ surface' = AfterCleanup(RefOnUnmount)

(***************************************************************************)
(* App: staged configuration edits and the commit.                         *)
(***************************************************************************)
\* two positions of the range input (min 1, max 15, step 0.5)
ZSpacingInputs == {1, DefaultZSpacing}

Config == [showLabels : BOOLEAN, showLayerNames : BOOLEAN,
           showInterLayerEdges : BOOLEAN, zSpacing : ZSpacingInputs]

InitialConfig ==
    [showLabels |-> FALSE, showLayerNames |-> TRUE, showInterLayerEdges |-> TRUE,
     zSpacing |-> DefaultZSpacing]

StageEdit(s) ==
    /\ staged' = s
    /\ UNCHANGED <<data, loading, error, active, gasUrl, viteGasUrl, pc, net, response>>
    /\ Render(data, loading, error, active)

setStagedShowLayerNames ==
    StageEdit([staged EXCEPT !.showLayerNames = ~staged.showLayerNames])

setStagedShowLabels ==
    StageEdit([staged EXCEPT !.showLabels = ~staged.showLabels])

setStagedShowInterLayerEdges ==
    StageEdit([staged EXCEPT !.showInterLayerEdges = ~staged.showInterLayerEdges])

setStagedZSpacing ==
    \E z \in ZSpacingInputs \ {staged.zSpacing} :
        StageEdit([staged EXCEPT !.zSpacing = z])

\* handleRetrigger with the setActiveShowInterLayerEdges call forgotten
handleRetriggerPartial ==
    /\ active' = [showLabels |-> staged.showLabels,
                  showLayerNames |-> staged.showLayerNames,
                  showInterLayerEdges |-> active.showInterLayerEdges,
                  zSpacing |-> staged.zSpacing]
    /\ UNCHANGED appVars
    /\ Render(data, loading, error, active')

\* the four setActive* calls of one click are applied in one render
handleRetrigger ==
    /\ active' = [showLabels |-> staged.showLabels,
                  showLayerNames |-> staged.showLayerNames,
                  showInterLayerEdges |-> staged.showInterLayerEdges,
                  zSpacing |-> staged.zSpacing]
    /\ UNCHANGED appVars
    /\ Render(data, loading, error, active')

(***************************************************************************)
(* dataService: fetchDataFromGAS.  A JSON body is described by             *)
(*   [status, message, hasData, hasLayers, layers]                         *)
(* (message "" is an absent message); what the network did by [kind, p].   *)
(***************************************************************************)
MsgNoUrl == "Google Apps Script URL is not configured."
MsgNoLayers == "No valid matrix layers found in the spreadsheet."
MsgTimeout == "Request timed out."
MsgUnknown == "Unknown error occurred"
MsgDefault == "Failed to fetch data from Google Spreadsheet."

Payload(status, message, hasData, hasLayers, layers) ==
    [status |-> status, message |-> message, hasData |-> hasData,
     hasLayers |-> hasLayers, layers |-> layers]

NoPayload == Payload("", "", FALSE, FALSE, <<>>)

Rect3 == Layer(3, 3, "rectangle", "full")

PayloadLayers ==
    {<<>>,
     <<Rect3>>,
     <<Rect3, Rect3>>,
     <<Layer(2, 2, "circle", "full"), Layer(2, 3, "triangle", "full"),
       Layer(2, 3, "rectangle", "ragged")>>}

PayloadInputs ==
    {Payload("success", "", TRUE, TRUE, ls) : ls \in PayloadLayers}
    \cup {Payload("success", "", FALSE, FALSE, <<>>),
          Payload("success", "", TRUE, FALSE, <<>>),
          Payload("error", "Spreadsheet not found", FALSE, FALSE, <<>>),
          Payload("error", "", TRUE, TRUE, <<Rect3>>),
          Payload("", "", TRUE, TRUE, <<Rect3>>)}

NetInputs ==
    {[kind |-> k, p |-> NoPayload] : k \in {"abort", "failed", "http", "badJson"}}
    \cup {[kind |-> "json", p |-> p] : p \in PayloadInputs}

NoNet == [kind |-> "none", p |-> NoPayload]

GASResponse(status, message, d) == [status |-> status, message |-> message, data |-> d]

NoResponse == GASResponse("", "", <<>>)

Returned(r) == [thrown |-> FALSE, value |-> r, isError |-> FALSE, name |-> "", message |-> ""]

Thrown(isError, name, message) ==
    [thrown |-> TRUE, value |-> NoResponse, isError |-> isError, name |-> name,
     message |-> message]

\* `data` of the body, as the GASResponse it is cast to
AsResponse(p) ==
    GASResponse(p.status, p.message, IF p.hasData THEN <<[layers |-> p.layers]>> ELSE <<>>)

\* the try block without the `data.data.layers.length === 0` test
TryBodyNoEmptyTest(n) ==
    IF n.kind = "abort" THEN Thrown(TRUE, "AbortError", "The user aborted a request.")
    ELSE IF n.kind = "failed" THEN Thrown(TRUE, "TypeError", "Failed to fetch")
    ELSE IF n.kind = "http" THEN Thrown(TRUE, "Error", "HTTP error! status: 500")
    ELSE IF n.kind = "badJson" THEN Thrown(TRUE, "SyntaxError", "Unexpected token < in JSON")
    ELSE IF n.p.status = "error" THEN Returned(AsResponse(n.p))
    ELSE IF ~n.p.hasData \/ ~n.p.hasLayers
         THEN Returned(GASResponse("error", MsgNoLayers, <<>>))
    ELSE Returned(AsResponse(n.p))

\* the try block: fetch, response.ok, response.json(), the checks of the body
TryBody(n) ==
    IF n.kind = "abort" THEN Thrown(TRUE, "AbortError", "The user aborted a request.")
    ELSE IF n.kind = "failed" THEN Thrown(TRUE, "TypeError", "Failed to fetch")
    ELSE IF n.kind = "http" THEN Thrown(TRUE, "Error", "HTTP error! status: 500")
    ELSE IF n.kind = "badJson" THEN Thrown(TRUE, "SyntaxError", "Unexpected token < in JSON")
    ELSE IF n.p.status = "error" THEN Returned(AsResponse(n.p))
    ELSE IF ~n.p.hasData \/ ~n.p.hasLayers \/ Len(n.p.layers) = 0
         THEN Returned(GASResponse("error", MsgNoLayers, <<>>))
    ELSE Returned(AsResponse(n.p))

\* the catch block
Catch(t) ==
    Returned(GASResponse("error",
                         IF t.isError
                         THEN (IF t.name = "AbortError" THEN MsgTimeout ELSE t.message)
                         ELSE MsgUnknown,
                         <<>>))

\* gasUrl || import.meta.env.VITE_GAS_URL
FinalGasUrl(gasUrlArg) == IF gasUrlArg # "" THEN gasUrlArg ELSE viteGasUrl

fetchDataFromGAS(gasUrlArg, n) ==
    IF FinalGasUrl(gasUrlArg) = ""
    THEN Returned(GASResponse("error", MsgNoUrl, <<>>))
    ELSE LET t == TryBody(n)
         IN  IF t.thrown THEN Catch(t) ELSE t

(***************************************************************************)
(* App: loadData.  spreadsheetId always has a value (its last default is a *)
(* literal), so `if (!spreadsheetId) return` is never taken.  The Refresh  *)
(* button is disabled while loading and Try Again is shown only when not   *)
(* loading, so one call is in flight at a time.                            *)
(***************************************************************************)
\* up to the await: setLoading(true); setError(null)
loadDataStart ==
    /\ pc = "idle"
    /\ ~loading
    /\ loading' = TRUE
    /\ error' = ""
    /\ pc' = "awaiting"
    /\ net' = NoNet
    /\ response' = NoResponse
    /\ UNCHANGED <<data, staged, active, gasUrl, viteGasUrl>>
    /\ Render(data, TRUE, "", active)

\* after the await: setData or setError, then setLoading(false)
loadDataResume ==
    /\ pc = "awaiting"
    /\ \E n \in (IF FinalGasUrl(gasUrl) = "" THEN {NoNet} ELSE NetInputs) :
        LET f == fetchDataFromGAS(gasUrl, n)
        IN  /\ net' = n
            /\ IF f.thrown
               THEN /\ pc' = "rejected"
                    /\ UNCHANGED <<data, loading, error, response>>
                    /\ Render(data, loading, error, active)
               ELSE LET ok == f.value.status = "success" /\ f.value.data # <<>>
                        d == IF ok THEN f.value.data ELSE data
                        e == IF ok THEN error
                             ELSE IF f.value.message # "" THEN f.value.message
                             ELSE MsgDefault
                    IN  /\ pc' = "idle"
                        /\ response' = f.value
                        /\ data' = d
                        /\ error' = e
                        /\ loading' = FALSE
                        /\ Render(d, FALSE, e, active)
    /\ UNCHANGED <<staged, active, gasUrl, viteGasUrl>>

\* <<the gasUrl query parameter, VITE_GAS_URL>>
UrlInputs ==
    {<<"", "">>, <<"https://param.example/exec", "">>, <<"", "https://env.example/exec">>}

Init ==
    /\ data = <<>>
    /\ loading = FALSE
    /\ error = ""
    /\ staged = InitialConfig
    /\ active = InitialConfig
    /\ \E u \in UrlInputs :
          /\ viteGasUrl = u[2]
          /\ gasUrl = IF u[1] # "" THEN u[1] ELSE u[2]
    /\ pc = "idle"
    /\ net = NoNet
    /\ response = NoResponse
    /\ mounted = FALSE
    /\ outcome = "idle"
    /\ scene = NoScene
    /\ surface = "none"

Next ==
    \/ setStagedShowLayerNames
    \/ setStagedShowLabels
    \/ setStagedShowInterLayerEdges
    \/ setStagedZSpacing
    \/ handleRetrigger
    \/ loadDataStart
    \/ loadDataResume

Spec == Init /\ [][Next]_vars

(***************************************************************************)
(* Graph3D on its own: the exported component under any props of its       *)
(* declared type (any Graph3DData, the three toggles), mounted, re-rendered *)
(* with a toggle changed, and unmounted by its parent.                     *)
(***************************************************************************)
\* showLabels = false, showLayerNames = false, showInterLayerEdges = true
Graph3DDefaults ==
    [showLabels |-> FALSE, showLayerNames |-> FALSE, showInterLayerEdges |-> TRUE,
     zSpacing |-> DefaultZSpacing]

InitGraph3D ==
    /\ data \in {<<g>> : g \in GraphInputs}
    /\ loading = FALSE
    /\ error = ""
    /\ staged = InitialConfig
    /\ active = Graph3DDefaults
    /\ gasUrl = ""
    /\ viteGasUrl = ""
    /\ pc = "idle"
    /\ net = NoNet
    /\ response = NoResponse
    /\ mounted = FALSE
    /\ outcome = "idle"
    /\ scene = NoScene
    /\ surface = "none"

Graph3DMount ==
    /\ ~mounted
    /\ UNCHANGED <<appVars, active>>
    /\ Render(data, loading, error, active)

Graph3DSetProps ==
    /\ mounted
    /\ \E a \in {[active EXCEPT !.showLabels = ~@],
                 [active EXCEPT !.showLayerNames = ~@],
                 [active EXCEPT !.showInterLayerEdges = ~@]} :
        /\ active' = a
        /\ Render(data, loading, error, a)
    /\ UNCHANGED appVars

Graph3DUnmount ==
    /\ mounted
    /\ mounted' = FALSE
    /\ outcome' = "idle"
    /\ scene' = NoScene
    /\ surface' = AfterCleanup(RefOnUnmount)
    /\ UNCHANGED <<appVars, active>>

NextGraph3D == Graph3DMount \/ Graph3DSetProps \/ Graph3DUnmount

SpecGraph3D == InitGraph3D /\ [][NextGraph3D]_vars

(***************************************************************************)
(* Reading the state.                                                      *)
(***************************************************************************)
Plotted == mounted /\ outcome = "plotted"

Layers == IF data = <<>> THEN <<>> ELSE data[1].layers

TracesOf(type) == {k \in 1..Len(scene) : scene[k].type = type}

\* the nodes of the node trace of the layer at zero-based index i
NodesOf(i) ==
    scene[CHOOSE k \in TracesOf("nodes") : scene[k].layer = i].nodes

Min(a, b) == IF a <= b THEN a ELSE b

Cells(layer) == layer.rows * layer.cols

\* the row-major index of cell (r, c) in a layer of `cols` columns
CellIndex(n, cols) == n.r * cols + n.c

(***************************************************************************)
(* C1: editing a staged setting leaves the four active settings unchanged; *)
(* the active settings change only by becoming the staged ones, all four   *)
(* in one step (so active = staged right after a commit); and the scene on *)
(* display is always the one built from the data and the active settings.  *)
(***************************************************************************)
C1_SceneFollowsCommittedConfig ==
    /\ [][/\ (staged' # staged => active' = active)
          /\ (active' # active => active' = staged /\ staged' = staged)]_vars
    /\ [](Plotted => scene = BuildTraces(Graph3DProps(data, active)))

C1_Witness ==
    /\ Plotted
    /\ active = staged
    /\ active.showLabels /\ ~active.showLayerNames /\ ~active.showInterLayerEdges
    /\ active.zSpacing # DefaultZSpacing
    /\ TracesOf("layerName") = {} /\ TracesOf("inter") = {}

(***************************************************************************)
(* C2: for every pair of consecutive layers with N1 and N2 nodes the inter- *)
(* layer trace holds exactly min(N1*N2, maxEdges + 1) edges, and edge j is  *)
(* the j-th (source, target) pair with sources in row-major order and, for  *)
(* each source, targets in row-major order.                                 *)
(***************************************************************************)
C2_InterEdgesArePrefix ==
    (Plotted /\ active.showInterLayerEdges) =>
        \A i \in 0..(Len(Layers) - 2) :
            /\ \E k \in TracesOf("inter") : scene[k].layer = i
            /\ \A k \in TracesOf("inter") :
                scene[k].layer = i =>
                    LET segs == scene[k].segs
                        l1 == Layers[i + 1]
                        l2 == Layers[i + 2]
                        n2 == Cells(l2)
                    IN  /\ Len(segs) = Min(Cells(l1) * n2, maxEdges + 1)
                        /\ \A j \in 1..Len(segs) :
                            /\ segs[j].a = NodesOf(i)[((j - 1) \div n2) + 1]
                            /\ segs[j].b = NodesOf(i + 1)[((j - 1) % n2) + 1]
                            /\ CellIndex(segs[j].a, l1.cols) = (j - 1) \div n2
                            /\ CellIndex(segs[j].b, l2.cols) = (j - 1) % n2
                            /\ segs[j].a.c < l1.cols /\ segs[j].b.c < l2.cols

C2_Witness ==
    /\ Plotted
    /\ \E k \in TracesOf("inter") :
        /\ Len(scene[k].segs) = maxEdges + 1
        /\ Cells(Layers[scene[k].layer + 1]) * Cells(Layers[scene[k].layer + 2])
              > maxEdges + 1

(***************************************************************************)
(* C3: no pair of consecutive layers gets more than maxEdges inter-layer   *)
(* edges.                                                                  *)
(***************************************************************************)
C3_InterEdgesWithinCap ==
    Plotted => \A k \in TracesOf("inter") : Len(scene[k].segs) <= maxEdges

(***************************************************************************)
(* C4: every node of layer i in the scene on display has z = i * zSpacing  *)
(* of the committed (active) configuration.                                *)
(***************************************************************************)
C4_ZIsIndexTimesActiveSpacing ==
    Plotted =>
        \A k \in TracesOf("nodes") :
            \A j \in 1..Len(scene[k].nodes) :
                scene[k].nodes[j].z = scene[k].layer * active.zSpacing

(***************************************************************************)
(* C5: a build over a layer whose shape tag is none of rectangle, circle,  *)
(* triangle ends in an error, and no node of such a layer is placed at the *)
(* default planar position (0, 0).                                         *)
(***************************************************************************)
C5_UnknownShapeRejected ==
    (mounted /\ \E i \in 1..Len(Layers) : Layers[i].shape \notin LayerShape) =>
        /\ outcome = "InvalidShape"
        /\ \A k \in TracesOf("nodes") :
            Layers[scene[k].layer + 1].shape \notin LayerShape =>
                \A j \in 1..Len(scene[k].nodes) :
                    ~(scene[k].nodes[j].x = Zero /\ scene[k].nodes[j].y = Zero)

(***************************************************************************)
(* C6: a build requested for a graph of zero layers ends in an EmptyGraph  *)
(* error and hands no traces to the rendering surface.                     *)
(***************************************************************************)
C6_EmptyGraphReported ==
    (mounted /\ Len(Layers) = 0) => (outcome = "EmptyGraph" /\ scene = NoScene)

(***************************************************************************)
(* C7: loadData's call of fetchDataFromGAS never throws; a missing         *)
(* endpoint URL, a timeout abort, a failed fetch, a non-OK status, an      *)
(* unparsable body, a provider error payload and a body whose layers are   *)
(* missing or empty all come back with status 'error' and put a message in *)
(* App's error state; the graph App stores has at least one layer.         *)
(***************************************************************************)
C7_FetchFailuresAreErrorValues ==
    /\ pc # "rejected"
    /\ (data # <<>> => Len(data[1].layers) >= 1)
    /\ (pc = "idle" /\ response # NoResponse) =>
          LET failed ==
                  \/ FinalGasUrl(gasUrl) = ""
                  \/ net.kind \in {"abort", "failed", "http", "badJson"}
                  \/ /\ net.kind = "json"
                     /\ \/ net.p.status = "error"
                        \/ ~net.p.hasData
                        \/ ~net.p.hasLayers
                        \/ Len(net.p.layers) = 0
          IN  /\ failed => (response.status = "error" /\ error # "")
              /\ (failed /\ ~(net.kind = "json" /\ net.p.status = "error"))
                    => response.message # ""
              /\ ~failed => response.data # <<>>

C7_Witness ==
    /\ pc = "idle"
    /\ net.kind = "json" /\ net.p.status = "success"
    /\ net.p.hasData /\ net.p.hasLayers /\ Len(net.p.layers) = 0
    /\ response.status = "error"
    /\ data # <<>>
    /\ error = MsgNoLayers

(***************************************************************************)
(* C8: the intra-layer trace of a rows x cols layer holds, for each cell   *)
(* (r, c), exactly these edges, each once: to (r, c+1) when c+1 < cols, or *)
(* to (r, (c+1) mod cols) for every c when the shape is circle; to         *)
(* (r+1, c) when r+1 < rows; and, for a triangle only, to (r+1, c-1) when  *)
(* r+1 < rows and c >= 1.                                                  *)
(***************************************************************************)
ExpectedIntra(layer) ==
    LET rs == 0..(layer.rows - 1)
        cs == 0..(layer.cols - 1)
    IN  {<<r, c, r, c + 1>> : r \in rs, c \in {c \in cs : layer.shape # "circle" /\ c + 1 < layer.cols}}
        \cup {<<r, c, r, (c + 1) % layer.cols>> : r \in rs, c \in {c \in cs : layer.shape = "circle"}}
        \cup {<<r, c, r + 1, c>> : r \in {r \in rs : r + 1 < layer.rows}, c \in cs}
        \cup {<<r, c, r + 1, c - 1>> :
                r \in {r \in rs : layer.shape = "triangle" /\ r + 1 < layer.rows},
                c \in {c \in cs : c >= 1}}

SegCells(seg) == <<seg.a.r, seg.a.c, seg.b.r, seg.b.c>>

C8_IntraEdgesAreTheNeighbours ==
    Plotted =>
        \A i \in 0..(Len(Layers) - 1) :
            /\ \E k \in TracesOf("intra") : scene[k].layer = i
            /\ \A k \in TracesOf("intra") :
                scene[k].layer = i =>
                    LET segs == scene[k].segs
                    IN  /\ {SegCells(segs[j]) : j \in 1..Len(segs)} = ExpectedIntra(Layers[i + 1])
                        /\ Len(segs) = Cardinality(ExpectedIntra(Layers[i + 1]))
                        /\ \A j \in 1..Len(segs) :
                            /\ segs[j].a = NodesOf(i)[CellIndex(segs[j].a, Layers[i + 1].cols) + 1]
                            /\ segs[j].b = NodesOf(i)[CellIndex(segs[j].b, Layers[i + 1].cols) + 1]

C8_Witness ==
    /\ Plotted
    /\ \E k \in TracesOf("intra") :
        /\ Layers[scene[k].layer + 1].shape = "circle"
        /\ \E j \in 1..Len(scene[k].segs) :
            scene[k].segs[j].a.c = 2 /\ scene[k].segs[j].b.c = 0
    /\ \E k \in TracesOf("intra") :
        /\ Layers[scene[k].layer + 1].shape = "triangle"
        /\ \E j \in 1..Len(scene[k].segs) :
            /\ scene[k].segs[j].b.r = scene[k].segs[j].a.r + 1
            /\ scene[k].segs[j].b.c = scene[k].segs[j].a.c - 1

(***************************************************************************)
(* C9: in every layer each intra-layer edge joins two distinct cells, is   *)
(* emitted while visiting the lower-indexed (row-major) of the two, and no *)
(* unordered pair of cells is emitted twice.                               *)
(***************************************************************************)
C9_IntraEdgesOnceFromLowerCell ==
    Plotted =>
        \A k \in TracesOf("intra") :
            LET segs == scene[k].segs
                cols == Layers[scene[k].layer + 1].cols
            IN  /\ \A j \in 1..Len(segs) :
                    CellIndex(segs[j].a, cols) < CellIndex(segs[j].b, cols)
                /\ \A j, l \in 1..Len(segs) :
                    j # l =>
                        {CellIndex(segs[j].a, cols), CellIndex(segs[j].b, cols)}
                            # {CellIndex(segs[l].a, cols), CellIndex(segs[l].b, cols)}

(***************************************************************************)
(* C10 as stated: a 3x3 rectangle layer has exactly 9 intra-layer edges,   *)
(* and two consecutive 3x3 layers have min(81, maxEdges + 1) inter-layer   *)
(* edges.                                                                  *)
(***************************************************************************)
IsSquare3(layer) == layer.rows = 3 /\ layer.cols = 3

Square3Counts(intraCount) ==
    Plotted =>
        /\ \A k \in TracesOf("intra") :
            (IsSquare3(Layers[scene[k].layer + 1])
             /\ Layers[scene[k].layer + 1].shape = "rectangle")
                => Len(scene[k].segs) = intraCount
        /\ \A k \in TracesOf("inter") :
            (IsSquare3(Layers[scene[k].layer + 1]) /\ IsSquare3(Layers[scene[k].layer + 2]))
                => Len(scene[k].segs) = Min(81, maxEdges + 1)

C10_NineOutlineEdges == Square3Counts(9)

(***************************************************************************)
(* C10 amended: a 3x3 rectangle layer has exactly 12 intra-layer edges (6  *)
(* to the right neighbour, 6 to the lower neighbour), and two consecutive  *)
(* 3x3 layers have min(81, maxEdges + 1) = 81 inter-layer edges.           *)
(***************************************************************************)
C10_TwelveOutlineEdges == Square3Counts(12)

C10_Witness ==
    /\ Plotted
    /\ Len(Layers) >= 2
    /\ Layers[1] = Rect3 /\ Layers[2] = Rect3
    /\ \E k \in TracesOf("intra") : scene[k].layer = 0 /\ Len(scene[k].segs) = 12
    /\ \E k \in TracesOf("inter") : scene[k].layer = 0 /\ Len(scene[k].segs) = 81

(***************************************************************************)
(* C11: the node trace of a layer holds exactly rows * cols nodes in       *)
(* row-major order (the node at zero-based index r * cols + c is cell      *)
(* (r, c)), each with the value values[r][c], or 0 when that row or cell   *)
(* is missing; a layer with missing cells is plotted like any other.       *)
(***************************************************************************)
HasCell(values, r, c) == r + 1 <= Len(values) /\ c + 1 <= Len(values[r + 1])

C11_NodesRowMajorWithDefault ==
    mounted =>
        /\ Len(Layers) > 0 => outcome = "plotted"
        /\ \A i \in 0..(Len(Layers) - 1) :
            LET layer == Layers[i + 1]
                nodes == NodesOf(i)
            IN  /\ Len(nodes) = layer.rows * layer.cols
                /\ \A r \in 0..(layer.rows - 1), c \in 0..(layer.cols - 1) :
                    LET n == nodes[r * layer.cols + c + 1]
                    IN  /\ n.r = r /\ n.c = c
                        /\ HasCell(layer.values, r, c) => n.val = layer.values[r + 1][c + 1]
                        /\ ~HasCell(layer.values, r, c) => n.val = 0

C11_Witness ==
    /\ Plotted
    /\ Len(Layers) = 1
    /\ Layers[1].rows = 3 /\ Layers[1].cols = 3
    /\ Len(Layers[1].values) = 2 /\ Len(Layers[1].values[1]) = 2
    /\ Len(NodesOf(0)) = 9
    /\ NodesOf(0)[2].val = 2 /\ NodesOf(0)[3].val = 0
    /\ NodesOf(0)[6].val = 6 /\ NodesOf(0)[7].val = 0

(***************************************************************************)
(* C12: the scene of a graph of N >= 1 layers holds, per layer, exactly    *)
(* one node trace and one intra-layer trace, and one layer-name trace when *)
(* showLayerNames is true and none when it is false; and one inter-layer   *)
(* trace per consecutive pair (N - 1 in all) when showInterLayerEdges is   *)
(* true and none when it is false; and nothing else.                       *)
(***************************************************************************)
CountOf(type, i) == Cardinality({k \in TracesOf(type) : scene[k].layer = i})

C12_OneGroupPerLayerAndPair ==
    Plotted =>
        LET n == Len(Layers)
            names == IF active.showLayerNames THEN 1 ELSE 0
            inters == IF active.showInterLayerEdges THEN 1 ELSE 0
        IN  /\ n >= 1
            /\ \A i \in 0..(n - 1) :
                /\ CountOf("nodes", i) = 1
                /\ CountOf("intra", i) = 1
                /\ CountOf("layerName", i) = names
            /\ \A i \in 0..(n - 2) : CountOf("inter", i) = inters
            /\ Cardinality(TracesOf("inter")) = inters * (n - 1)
            /\ Len(scene) = n * (2 + names) + inters * (n - 1)

C12_Witness ==
    /\ Plotted
    /\ Len(Layers) = 3
    /\ active.showLayerNames /\ active.showInterLayerEdges
    /\ Cardinality(TracesOf("layerName")) = 3
    /\ Cardinality(TracesOf("inter")) = 2

(***************************************************************************)
(* C13: every plot bound by Plotly.newPlot is released by Plotly.purge     *)
(* before the next one is bound and when the component is torn down: no    *)
(* plot is left bound and unreleased once its Graph3D is gone.             *)
(***************************************************************************)
C13_EveryBoundSceneReleased ==
    /\ surface # "leaked"
    /\ ~mounted => surface \in {"none", "released"}

(***************************************************************************)
(* C14: in a rectangle layer of R x C cells the node of cell (r, c) is at  *)
(* x = (c - (C-1)/2) * 1.5 and y = (r - (R-1)/2) * 1.5, and for every node *)
(* at (x, y) there is a node at (-x, y) and a node at (x, -y).             *)
(***************************************************************************)
Negated(q) == Quarter(0 - q.n)

C14_RectangleSymmetric ==
    Plotted =>
        \A k \in TracesOf("nodes") :
            LET layer == Layers[scene[k].layer + 1]
                nodes == scene[k].nodes
            IN  layer.shape = "rectangle" =>
                    \A j \in 1..Len(nodes) :
                        /\ nodes[j].x.k = "quarter" /\ nodes[j].y.k = "quarter"
                        /\ 2 * nodes[j].x.n = 3 * (4 * nodes[j].c - 2 * (layer.cols - 1))
                        /\ 2 * nodes[j].y.n = 3 * (4 * nodes[j].r - 2 * (layer.rows - 1))
                        /\ \E l \in 1..Len(nodes) :
                            nodes[l].x = Negated(nodes[j].x) /\ nodes[l].y = nodes[j].y
                        /\ \E l \in 1..Len(nodes) :
                            nodes[l].x = nodes[j].x /\ nodes[l].y = Negated(nodes[j].y)

C14_Witness ==
    /\ Plotted
    /\ \E k \in TracesOf("nodes") :
        /\ Layers[scene[k].layer + 1].shape = "rectangle"
        /\ Layers[scene[k].layer + 1].rows = 3 /\ Layers[scene[k].layer + 1].cols = 2
        /\ \E j, l \in 1..Len(scene[k].nodes) :
            /\ scene[k].nodes[j].x = Quarter(-3) /\ scene[k].nodes[j].y = Quarter(-6)
            /\ scene[k].nodes[l].x = Quarter(3) /\ scene[k].nodes[l].y = Quarter(6)

(***************************************************************************)
(* C15: Graph3D is on display exactly when loading is false, error is null *)
(* and a graph is loaded; loadData sets loading and clears error when it   *)
(* starts and clears loading when it ends; a load that ends in an error    *)
(* sets error and leaves the stored graph as it was, and Graph3D comes     *)
(* (back) on display only at the end of a load that succeeded.             *)
(***************************************************************************)
C15_DisplayFollowsLoadState ==
    /\ [](mounted <=> (~loading /\ error = "" /\ data # <<>>))
    /\ [][/\ (pc = "idle" /\ pc' = "awaiting") => (loading' /\ error' = "" /\ data' = data)
          /\ (pc = "awaiting" /\ pc' # "awaiting") =>
                /\ pc' = "idle" /\ ~loading'
                /\ (response'.status = "success" /\ response'.data # <<>>)
                      => (data' = response'.data /\ error' = error)
                /\ ~(response'.status = "success" /\ response'.data # <<>>)
                      => (error' # "" /\ data' = data)
          /\ (~mounted /\ mounted') =>
                (pc = "awaiting" /\ response'.status = "success" /\ data' = response'.data)
         ]_vars

C15_Witness ==
    /\ pc = "idle" /\ ~loading
    /\ response.status = "error"
    /\ error # ""
    /\ data # <<>>
    /\ ~mounted

====
